---- MODULE Spec2Model ----
(***************************************************************************)
(* The in-memory note store of the GoldenCity Memo API (app/storage.py)    *)
(* with the pydantic models that validate what reaches it (app/models.py). *)
(*                                                                         *)
(* A text is a sequence of characters; a field value is a record           *)
(* [kind, chars]: kind "str" for a Python str, "None" for Python None and  *)
(* "unset" for a key that the request body does not carry.                 *)
(* A timestamp is a natural number; datetime.now(UTC) is read from a clock *)
(* that never goes backwards, and every read may find it advanced.         *)
(* uuid4() is modelled as an id never handed out before.                   *)
(* A Note object is built once, by create, with its own id, and is changed *)
(* in place afterwards: two references are to the same object exactly when *)
(* the ids are equal, so a write through one reference shows in a kept     *)
(* record of the same id.                                                  *)
(***************************************************************************)
EXTENDS Integers, Sequences, FiniteSets, TLC

VARIABLES
    notes,      \* NoteStorage._notes: the list of Note objects, in list order
    clock,      \* the value of the last datetime.now(UTC) read
    nextId,     \* the next id uuid4() hands out
    last,       \* the last call made on the store: operation, id, returned value
    written,    \* history: per id, the title and content the callers last wrote
    kept,       \* what a caller keeps of a returned value: a note or a list of notes
    resp,       \* the last HTTP response of the routes: status, detail, body
    thr,        \* the request threads: where each is in its handler, and its locals
    calls,      \* the create calls less the delete calls that returned True, since the last clear
    dep         \* dependencies.py: _storage_instance, the stores made, what each caller got

vars == <<notes, clock, nextId, last, written, kept, resp, thr, calls, dep>>

----------------------------------------------------------------------------
(* Bounds of the model *)

MaxIds == 3          \* how many notes are ever created
MaxClock == 2        \* the clock runs 0 .. MaxClock
MaxTextIds == 2      \* how many notes are ever created under SpecText
MaxHttpIds == 1      \* how many notes are ever created under SpecHttp
MaxInstances == 3    \* how many NoteStorage instances get_storage ever makes

(* Program constants *)

MaxTitleLen == 200   \* NoteBase.title / NoteUpdate.title max_length
MinLen == 1          \* min_length of title and content

----------------------------------------------------------------------------
(* Values *)

Ids == 1..MaxIds

None == [kind |-> "None", chars |-> <<>>]
UNSET == [kind |-> "unset", chars |-> <<>>]
Str(s) == [kind |-> "str", chars |-> s]

Repeat(c, n) == [i \in 1..n |-> c]

\* the texts a client sends: empty, one character, exactly the maximum, one over
TitleTexts == {<<>>, <<"a">>, Repeat("t", MaxTitleLen), Repeat("t", MaxTitleLen + 1)}
ContentTexts == {<<>>, <<"c">>, <<"d">>}

TitleInputs == {UNSET, None} \cup {Str(s) : s \in TitleTexts}
ContentInputs == {UNSET} \cup {Str(s) : s \in ContentTexts}

\* a request body: each key absent, null or a string
Bodies == [title : TitleInputs, content : ContentInputs]

\* a full body, an empty body and a body with an empty title
PlainBodies ==
    {[title |-> Str(<<"a">>), content |-> Str(<<"c">>)],
     [title |-> UNSET, content |-> UNSET],
     [title |-> Str(<<>>), content |-> Str(<<"c">>)]}

----------------------------------------------------------------------------
(* models.py *)

\* NoteBase: title: str = Field(..., min_length=1, max_length=200),
\*           content: str = Field(..., min_length=1); both required, None is no str
NoteCreateValid(d) ==
    /\ d.title.kind = "str"
    /\ Len(d.title.chars) >= MinLen
    /\ Len(d.title.chars) <= MaxTitleLen
    /\ d.content.kind = "str"
    /\ Len(d.content.chars) >= MinLen

\* NoteUpdate without the max_length of title
NoteUpdateValidAnyLength(d) ==
    /\ \/ d.title.kind \in {"unset", "None"}
       \/ /\ d.title.kind = "str"
          /\ Len(d.title.chars) >= MinLen
    /\ \/ d.content.kind \in {"unset", "None"}
       \/ /\ d.content.kind = "str"
          /\ Len(d.content.chars) >= MinLen

\* NoteUpdate: title: str | None = Field(None, min_length=1, max_length=200),
\*             content: str | None = Field(None, min_length=1).
\* The length constraints apply to a str only: an absent key and an explicit
\* null both pass.
NoteUpdateValid(d) ==
    /\ \/ d.title.kind \in {"unset", "None"}
       \/ /\ d.title.kind = "str"
          /\ Len(d.title.chars) >= MinLen
          /\ Len(d.title.chars) <= MaxTitleLen
    /\ \/ d.content.kind \in {"unset", "None"}
       \/ /\ d.content.kind = "str"
          /\ Len(d.content.chars) >= MinLen

\* NoteUpdate.model_dump(exclude_unset=True): the fields the body carried,
\* an explicit null included
model_dump_exclude_unset(d) == {f \in {"title", "content"} : d[f].kind # "unset"}

\* Note with the two timestamp factories run in the other order: updated_at is
\* read from the clock before created_at
NoteStampsSwapped(d, id, t1, t2) ==
    [id |-> id, title |-> d.title, content |-> d.content,
     created_at |-> t2, updated_at |-> t1]

\* Note with id: UUID = Field(default=uuid4()): the default is computed once,
\* when the class is defined, and every note carries it
NoteSameId(d, id, t1, t2) ==
    [id |-> 1, title |-> d.title, content |-> d.content,
     created_at |-> t1, updated_at |-> t2]

\* Note(**note_data.model_dump()): id from uuid4, created_at and updated_at from
\* two separate default factories, each reading the clock
Note(d, id, t1, t2) ==
    [id |-> id, title |-> d.title, content |-> d.content,
     created_at |-> t1, updated_at |-> t2]

----------------------------------------------------------------------------
(* storage.py: the pure parts *)

\* get_by_id without its filter, next(iter(self._notes), None): the first note,
\* whatever its id
get_by_id_unfiltered(ns, note_id) == IF ns = <<>> THEN 0 ELSE 1

\* next((note for note in self._notes if note.id == note_id), None), as the
\* index of the first match, 0 for None
get_by_id(ns, note_id) ==
    IF \E i \in 1..Len(ns) : ns[i].id = note_id
    THEN CHOOSE i \in 1..Len(ns) :
            /\ ns[i].id = note_id
            /\ \A j \in 1..(i - 1) : ns[j].id # note_id
    ELSE 0

\* one step of the stable descending sort: x goes behind every element whose
\* key is greater than or equal to its own
InsertDesc(s, x) ==
    LET k == Cardinality({i \in 1..Len(s) : s[i].created_at >= x.created_at})
    IN  SubSeq(s, 1, k) \o <<x>> \o SubSeq(s, k + 1, Len(s))

RECURSIVE SortedDesc(_)
SortedDesc(ns) ==
    IF ns = <<>> THEN <<>>
    ELSE InsertDesc(SortedDesc(SubSeq(ns, 1, Len(ns) - 1)), ns[Len(ns)])

\* the ascending counterpart: x goes behind every element whose key is less than
\* or equal to its own
InsertAsc(s, x) ==
    LET k == Cardinality({i \in 1..Len(s) : s[i].created_at <= x.created_at})
    IN  SubSeq(s, 1, k) \o <<x>> \o SubSeq(s, k + 1, Len(s))

RECURSIVE SortedAsc(_)
SortedAsc(ns) ==
    IF ns = <<>> THEN <<>>
    ELSE InsertAsc(SortedAsc(SubSeq(ns, 1, Len(ns) - 1)), ns[Len(ns)])

Reverse(s) == [i \in 1..Len(s) |-> s[Len(s) + 1 - i]]

\* get_all with reverse=True forgotten: oldest first
get_all_ascending(ns) == SortedAsc(ns)

\* get_all as sorted(...)[::-1]: newest first, but notes of equal created_at
\* come out in reverse insertion order
get_all_reversed(ns) == Reverse(SortedAsc(ns))

\* sorted(self._notes, key=lambda x: x.created_at, reverse=True): a new list;
\* Python's sort is stable, also with reverse=True
get_all(ns) == SortedDesc(ns)

\* list.remove(x) that drops nothing
ListRemoveNothing(ns, x) == ns

\* list.pop() in place of list.remove(x): drops the last element
ListRemoveLast(ns, x) == SubSeq(ns, 1, Len(ns) - 1)

\* list.remove(x): drops the first element equal to x
ListRemove(ns, x) ==
    LET i == CHOOSE k \in 1..Len(ns) :
                /\ ns[k] = x
                /\ \A j \in 1..(k - 1) : ns[j] # x
    IN  SubSeq(ns, 1, i - 1) \o SubSeq(ns, i + 1, Len(ns))

\* update as a replace: model_dump() without exclude_unset, so that a field the
\* body does not carry is set to its default None
ApplyUpdateReplace(n, d, now) ==
    [n EXCEPT
        !.title = IF d.title.kind = "unset" THEN None ELSE d.title,
        !.content = IF d.content.kind = "unset" THEN None ELSE d.content,
        !.updated_at = now]

\* update that refreshes created_at in place of updated_at
ApplyUpdateStampsCreated(n, d, now) ==
    [n EXCEPT
        !.title = IF d.title.kind = "unset" THEN @ ELSE d.title,
        !.content = IF d.content.kind = "unset" THEN @ ELSE d.content,
        !.created_at = now]

\* update that sets updated_at only when the body carried a field
\* (if update_data: note.updated_at = ...)
ApplyUpdateIfChanged(n, d, now) ==
    [n EXCEPT
        !.title = IF d.title.kind = "unset" THEN @ ELSE d.title,
        !.content = IF d.content.kind = "unset" THEN @ ELSE d.content,
        !.updated_at = IF d.title.kind = "unset" /\ d.content.kind = "unset"
                       THEN @ ELSE now]

\* for field, value in update_data.items(): setattr(note, field, value)
\* (Note does not validate on assignment), then note.updated_at = now
ApplyUpdate(n, d, now) ==
    [n EXCEPT
        !.title = IF "title" \in model_dump_exclude_unset(d) THEN d.title ELSE @,
        !.content = IF "content" \in model_dump_exclude_unset(d) THEN d.content ELSE @,
        !.updated_at = now]

----------------------------------------------------------------------------
(* Returned values *)

RetNote(n) == [kind |-> "note", note |-> n]
RetNone == [kind |-> "None"]
RetBool(b) == [kind |-> "bool", val |-> b]
RetList(s) == [kind |-> "list", notes |-> s]
RetInvalid == [kind |-> "ValidationError"]

\* history of the values handed to create and update for an id: what the caller
\* wrote, taken from the calls' arguments and not from the stored note
NoWrite == [kind |-> "absent", title |-> UNSET, content |-> UNSET]
WriteOf(w, d) ==
    [kind |-> "written",
     title |-> IF d.title.kind = "unset" THEN w.title ELSE d.title,
     content |-> IF d.content.kind = "unset" THEN w.content ELSE d.content]

Call(op, id, ret) == [op |-> op, id |-> id, ret |-> ret]

\* a caller's references after the object n was changed in place: every
\* reference to that object shows the new fields
NoKept == [kind |-> "nothing"]
Aliased(k, n) ==
    IF k.kind = "note"
    THEN (IF k.note.id = n.id THEN RetNote(n) ELSE k)
    ELSE IF k.kind = "list"
    THEN RetList([x \in 1..Len(k.notes) |->
                    IF k.notes[x].id = n.id THEN n ELSE k.notes[x]])
    ELSE k

\* an HTTP response: status code, the detail of an error, the body
Resp(status, detail, body) == [status |-> status, detail |-> detail, body |-> body]
NoBody == [kind |-> "empty"]
NoResp == Resp(0, "", NoBody)

\* the request threads and their handler-local state: pc, the id asked for,
\* the id of the Note object get_by_id found (0 for None), the store's
\* returned value and the status answered; in update also the body, the
\* fields of update_data still to be set and the clock value read
Threads == {1, 2}
Idle ==
    [pc |-> "idle", id |-> 0, note |-> 0, ret |-> RetNone, status |-> 0,
     data |-> [title |-> UNSET, content |-> UNSET], todo |-> <<>>, now |-> 0]

\* no call counted yet since the last clear, or since construction
NoCalls == 0

\* dependencies.py before any call: _storage_instance = None, no NoteStorage
\* made; a store instance is a number from 1 and 0 stands for None.  stores[k]
\* is the _notes of instance k, got[c] the instance get_storage returned to
\* caller c, pc[c] where c is in get_storage.
Callers == {1, 2}
Instances == 1..MaxInstances
NoDep ==
    [instance |-> 0,
     made |-> 0,
     stores |-> [k \in Instances |-> <<>>],
     got |-> [c \in Callers |-> 0],
     pc |-> [c \in Callers |-> "out"]]

----------------------------------------------------------------------------
(* The store *)

\* NoteStorage.__init__
Init ==
    /\ notes = <<>>
    /\ clock = 0
    /\ nextId = 1
    /\ last = Call("init", 0, RetNone)
    /\ written = [i \in Ids |-> NoWrite]
    /\ kept = NoKept
    /\ resp = NoResp
    /\ thr = [t \in Threads |-> Idle]
    /\ calls = NoCalls
    /\ dep = NoDep

\* create as self._notes.insert(0, note): the new note goes first
CreatePrepend(d) ==
    IF ~NoteCreateValid(d)
    THEN /\ last' = Call("create", 0, RetInvalid)
         /\ UNCHANGED <<notes, clock, nextId, written, kept, calls>>
    ELSE /\ nextId <= MaxIds
         /\ \E t1 \in clock..MaxClock : \E t2 \in t1..MaxClock :
              LET note == Note(d, nextId, t1, t2) IN
              /\ notes' = <<note>> \o notes
              /\ clock' = t2
              /\ nextId' = nextId + 1
              /\ last' = Call("create", nextId, RetNote(note))
              /\ written' = [written EXCEPT ![nextId] = WriteOf(NoWrite, d)]
              /\ calls' = calls + 1
              /\ UNCHANGED kept

\* NoteCreate(**body) then NoteStorage.create
Create(d) ==
    IF ~NoteCreateValid(d)
    THEN /\ last' = Call("create", 0, RetInvalid)
         /\ UNCHANGED <<notes, clock, nextId, written, kept, calls>>
    ELSE /\ nextId <= MaxIds
         /\ \E t1 \in clock..MaxClock : \E t2 \in t1..MaxClock :
              LET note == Note(d, nextId, t1, t2) IN
              /\ notes' = Append(notes, note)
              /\ clock' = t2
              /\ nextId' = nextId + 1
              /\ last' = Call("create", nextId, RetNote(note))
              /\ written' = [written EXCEPT ![nextId] = WriteOf(NoWrite, d)]
              /\ calls' = calls + 1
              /\ UNCHANGED kept

\* get_all as self._notes.sort(...): the stored list itself is reordered
GetAllInPlace ==
    /\ notes' = get_all(notes)
    /\ last' = Call("get_all", 0, RetList(get_all(notes)))
    /\ UNCHANGED <<clock, nextId, written, kept, calls>>

\* NoteStorage.get_all
GetAll ==
    /\ last' = Call("get_all", 0, RetList(get_all(notes)))
    /\ UNCHANGED <<notes, clock, nextId, written, kept, calls>>

\* NoteStorage.get_by_id
GetById(id) ==
    LET i == get_by_id(notes, id) IN
    /\ last' = Call("get_by_id", id, IF i = 0 THEN RetNone ELSE RetNote(notes[i]))
    /\ UNCHANGED <<notes, clock, nextId, written, kept, calls>>

\* NoteUpdate(**body) then NoteStorage.update
Update(id, d) ==
    IF ~NoteUpdateValid(d)
    THEN /\ last' = Call("update", id, RetInvalid)
         /\ UNCHANGED <<notes, clock, nextId, written, kept, calls>>
    ELSE LET i == get_by_id(notes, id) IN
         IF i = 0
         THEN /\ last' = Call("update", id, RetNone)
              /\ UNCHANGED <<notes, clock, nextId, written, kept, calls>>
         ELSE \E now \in clock..MaxClock :
                LET note == ApplyUpdate(notes[i], d, now) IN
                /\ notes' = [notes EXCEPT ![i] = note]
                /\ clock' = now
                /\ last' = Call("update", id, RetNote(note))
                /\ written' = [written EXCEPT ![id] = WriteOf(@, d)]
                /\ kept' = Aliased(kept, note)
                /\ UNCHANGED <<nextId, calls>>

\* NoteStorage.delete
Delete(id) ==
    LET i == get_by_id(notes, id) IN
    IF i = 0
    THEN /\ last' = Call("delete", id, RetBool(FALSE))
         /\ UNCHANGED <<notes, clock, nextId, written, kept, calls>>
    ELSE /\ notes' = ListRemove(notes, notes[i])
         /\ last' = Call("delete", id, RetBool(TRUE))
         /\ written' = [written EXCEPT ![id] = NoWrite]
         /\ calls' = calls - 1
         /\ UNCHANGED <<clock, nextId, kept>>

\* clear as self._notes.pop(): only the last note goes
ClearPop ==
    /\ notes' = SubSeq(notes, 1, Len(notes) - 1)
    /\ last' = Call("clear", 0, RetNone)
    /\ written' = [i \in Ids |-> NoWrite]
    /\ calls' = NoCalls
    /\ UNCHANGED <<clock, nextId, kept>>

\* NoteStorage.clear
Clear ==
    /\ notes' = <<>>
    /\ last' = Call("clear", 0, RetNone)
    /\ written' = [i \in Ids |-> NoWrite]
    /\ calls' = NoCalls
    /\ UNCHANGED <<clock, nextId, kept>>

\* a call made on the store directly: no route answers, no thread moves
Direct == UNCHANGED <<resp, thr, dep>>

\* many notes and clock values, few texts
Next ==
    \/ \E d \in PlainBodies : Create(d) /\ Direct
    \/ GetAll /\ Direct
    \/ \E id \in Ids : GetById(id) /\ Direct
    \/ \E id \in Ids, d \in PlainBodies : Update(id, d) /\ Direct
    \/ \E id \in Ids : Delete(id) /\ Direct
    \/ Clear /\ Direct

Spec == Init /\ [][Next]_vars

\* every kind of text, but fewer notes, and a clock too coarse to advance
\* between the calls
TextScope ==
    /\ nextId' <= MaxTextIds + 1
    /\ clock' = clock
    /\ Direct

TextIds == 1..MaxTextIds

NextText ==
    \/ \E d \in Bodies : Create(d) /\ TextScope
    \/ GetAll /\ Direct
    \/ \E id \in TextIds : GetById(id) /\ Direct
    \/ \E id \in TextIds, d \in Bodies : Update(id, d) /\ TextScope
    \/ \E id \in TextIds : Delete(id) /\ Direct
    \/ Clear /\ Direct

SpecText == Init /\ [][NextText]_vars

----------------------------------------------------------------------------
(* Callers that keep what the store returned *)

\* the caller binds the value the last call returned: create, get_by_id and
\* update return the stored Note object itself, get_all a new list of the stored
\* Note objects
Keep ==
    /\ last.ret.kind \in {"note", "list"}
    /\ kept' = last.ret
    /\ UNCHANGED <<notes, clock, nextId, last, written, calls>>
    /\ Direct

\* the caller assigns the title of the note it kept: kept.title = v. The object
\* is the stored one for as long as the store holds it.
CallerSetsTitle(v) ==
    /\ kept.kind = "note"
    /\ kept' = RetNote([kept.note EXCEPT !.title = v])
    /\ notes' = [i \in 1..Len(notes) |->
                    IF notes[i].id = kept.note.id
                    THEN [notes[i] EXCEPT !.title = v]
                    ELSE notes[i]]
    /\ UNCHANGED <<clock, nextId, last, written, calls>>
    /\ Direct

CallerTitles == {Str(<<"a">>), Str(<<"z">>)}

\* the store's calls on fewer notes, and callers keeping and changing what
\* they got
NextAlias ==
    \/ \E d \in PlainBodies : Create(d) /\ nextId' <= MaxTextIds + 1 /\ Direct
    \/ GetAll /\ Direct
    \/ \E id \in TextIds : GetById(id) /\ Direct
    \/ \E id \in TextIds, d \in PlainBodies : Update(id, d) /\ Direct
    \/ \E id \in TextIds : Delete(id) /\ Direct
    \/ Clear /\ Direct
    \/ Keep
    \/ \E v \in CallerTitles : CallerSetsTitle(v)

SpecAlias == Init /\ [][NextAlias]_vars

----------------------------------------------------------------------------
(* routes.py: the HTTP boundary *)

\* what a store call does when the handler invokes it: it runs, or it raises
\* an exception with a message of its own, either an HTTPException (which
\* carries a status and a detail) or any other Exception
NoFault == [kind |-> "none", status |-> 0, detail |-> ""]
Faults ==
    {NoFault,
     [kind |-> "Exception", status |-> 0, detail |-> "Storage error"],
     [kind |-> "HTTPException", status |-> 503, detail |-> "Database error"]}
RetRaised(f) == [kind |-> "raised", exc |-> f]

\* raise HTTPException(status_code=404, detail="Note not found")
NotFound == [kind |-> "HTTPException", status |-> 404, detail |-> "Note not found"]

\* the detail of each handler's generic except branch
FailDetail(op) ==
    CASE op = "create" -> "Failed to create note"
      [] op = "get_all" -> "Failed to retrieve notes"
      [] op = "get_by_id" -> "Failed to retrieve note"
      [] op = "update" -> "Failed to update note"
      [] op = "delete" -> "Failed to delete note"

\* no handler has an `except HTTPException: raise` clause
ReraisesNowhere(op) == FALSE

\* the handlers with an `except HTTPException: raise` clause before the
\* generic one
Reraises(op) == op \in {"get_by_id", "update", "delete"}

\* the except clauses of a handler, for an exception raised in its try block
Except(op, exc) ==
    IF exc.kind = "HTTPException" /\ Reraises(op)
    THEN Resp(exc.status, exc.detail, NoBody)
    ELSE Resp(500, FailDetail(op), NoBody)

\* POST /notes answers 200
TryCreated200(op, ret) ==
    IF ret.kind = "raised" THEN Except(op, ret.exc)
    ELSE IF op = "create" THEN Resp(200, "", ret)
    ELSE IF op = "get_all" THEN Resp(200, "", ret)
    ELSE IF op = "delete"
    THEN (IF ret = RetBool(TRUE) THEN Resp(204, "", NoBody) ELSE Except(op, NotFound))
    ELSE (IF ret = RetNone THEN Except(op, NotFound) ELSE Resp(200, "", ret))

\* the try block of a handler, from what the store call returned or raised
Try(op, ret) ==
    IF ret.kind = "raised" THEN Except(op, ret.exc)
    ELSE IF op = "create" THEN Resp(201, "", ret)
    ELSE IF op = "get_all" THEN Resp(200, "", ret)
    ELSE IF op = "delete"
    THEN (IF ret = RetBool(TRUE) THEN Resp(204, "", NoBody) ELSE Except(op, NotFound))
    ELSE (IF ret = RetNone THEN Except(op, NotFound) ELSE Resp(200, "", ret))

\* the store call raises: nothing is changed
StoreRaises(op, id, f) ==
    /\ last' = Call(op, id, RetRaised(f))
    /\ UNCHANGED <<notes, clock, nextId, written, kept, calls>>

\* the request fails validation, in its path, its body or both: FastAPI
\* answers 422, naming where, and the handler, hence the store, is not invoked
Unprocessable(loc) ==
    /\ resp' = Resp(422, loc, NoBody)
    /\ UNCHANGED <<notes, clock, nextId, last, written, kept, calls>>

\* POST /notes
create_note(d, f) ==
    IF ~NoteCreateValid(d) THEN Unprocessable("body")
    ELSE /\ IF f = NoFault THEN Create(d) ELSE StoreRaises("create", 0, f)
         /\ resp' = Try("create", last'.ret)

\* GET /notes
get_notes(f) ==
    /\ IF f = NoFault THEN GetAll ELSE StoreRaises("get_all", 0, f)
    /\ resp' = Try("get_all", last'.ret)

\* GET /notes/{note_id}
get_note(id, f) ==
    /\ IF f = NoFault THEN GetById(id) ELSE StoreRaises("get_by_id", id, f)
    /\ resp' = Try("get_by_id", last'.ret)

\* PUT /notes/{note_id}
update_note(id, d, f) ==
    IF ~NoteUpdateValid(d) THEN Unprocessable("body")
    ELSE /\ IF f = NoFault THEN Update(id, d) ELSE StoreRaises("update", id, f)
         /\ resp' = Try("update", last'.ret)

\* DELETE /notes/{note_id}
delete_note(id, f) ==
    /\ IF f = NoFault THEN Delete(id) ELSE StoreRaises("delete", id, f)
    /\ resp' = Try("delete", last'.ret)

\* The {note_id} of a path is a text, which FastAPI converts to the UUID the
\* handler is declared with.  A text is <<"uuid", n>> when it is the text of
\* the UUID n and <<"text", s>> when it is no UUID's text.
UUIDText(id) == <<"uuid", id>>
MalformedTexts == {<<"text", "invalid-uuid">>}

\* every text is taken for a UUID's
IsUUIDTextAny(tok) == TRUE

\* UUID(text) succeeds
IsUUIDText(tok) == tok[1] = "uuid"

\* the UUID of a text: the nil UUID, which no note has, where there is none
UUIDOf(tok) == IF tok[1] = "uuid" THEN tok[2] ELSE 0

\* GET /notes/{note_id} with a malformed id looked up as an id no note has
get_note_path_as_unknown(tok, f) == get_note(UUIDOf(tok), f)

\* GET /notes/{note_id}, from the text of the path
get_note_path(tok, f) ==
    IF ~IsUUIDText(tok) THEN Unprocessable("path")
    ELSE get_note(UUIDOf(tok), f)

\* PUT /notes/{note_id}, from the text of the path: the errors of the path and
\* of the body are reported together
update_note_path(tok, d, f) ==
    IF ~IsUUIDText(tok)
    THEN Unprocessable(IF NoteUpdateValid(d) THEN "path" ELSE "path, body")
    ELSE update_note(UUIDOf(tok), d, f)

\* DELETE /notes/{note_id}, from the text of the path
delete_note_path(tok, f) ==
    IF ~IsUUIDText(tok) THEN Unprocessable("path")
    ELSE delete_note(UUIDOf(tok), f)

\* the bodies of the HTTP requests: a full body, one with only content, one
\* with only a title of the maximum length, an empty one, and those with an
\* empty title, a title one over the maximum, an empty content, no content.
\* None carries a null title, so that each note a route returns satisfies its
\* response model.
HttpBodies ==
    {[title |-> Str(<<"a">>), content |-> Str(<<"c">>)],
     [title |-> UNSET, content |-> Str(<<"d">>)],
     [title |-> Str(Repeat("t", MaxTitleLen)), content |-> UNSET],
     [title |-> UNSET, content |-> UNSET],
     [title |-> Str(<<>>), content |-> Str(<<"c">>)],
     [title |-> Str(Repeat("t", MaxTitleLen + 1)), content |-> Str(<<"c">>)],
     [title |-> Str(<<"a">>), content |-> Str(<<>>)],
     [title |-> Str(<<"a">>), content |-> UNSET]}

\* the ids of the requests: those of the notes and one that no note has
HttpIds == 1..(MaxHttpIds + 1)

\* requests served one at a time, on few notes, the clock standing still
HttpScope ==
    /\ nextId' <= MaxHttpIds + 1
    /\ clock' = clock
    /\ UNCHANGED <<thr, dep>>

\* the texts in the paths of the requests
PathTexts == {UUIDText(id) : id \in HttpIds} \cup MalformedTexts

NextHttp ==
    \/ \E d \in HttpBodies, f \in Faults : create_note(d, f) /\ HttpScope
    \/ \E f \in Faults : get_notes(f) /\ HttpScope
    \/ \E tok \in PathTexts, f \in Faults : get_note_path(tok, f) /\ HttpScope
    \/ \E tok \in PathTexts, d \in HttpBodies, f \in Faults :
          update_note_path(tok, d, f) /\ HttpScope
    \/ \E tok \in PathTexts, f \in Faults : delete_note_path(tok, f) /\ HttpScope

SpecHttp == Init /\ [][NextHttp]_vars

----------------------------------------------------------------------------
(* Requests on several threads *)

\* The routes are plain functions, which the server runs on worker threads, and
\* NoteStorage takes no lock: a thread in delete can be overtaken between its
\* get_by_id and its list.remove.  Each of the two is one step here.

\* list.remove(x) of an x that is not in the list
ValueError == [kind |-> "Exception", status |-> 0, detail |-> "list.remove(x): x not in list"]

\* delete_note calls storage.delete: note = self.get_by_id(note_id)
DeleteFind(t, id) ==
    /\ thr[t].pc = "idle"
    /\ thr' = [thr EXCEPT ![t] =
                 [Idle EXCEPT !.pc = "found", !.id = id,
                              !.note = IF get_by_id(notes, id) = 0 THEN 0 ELSE id]]
    /\ UNCHANGED <<notes, clock, nextId, last, written, kept, resp, calls, dep>>

\* if note: self._notes.remove(note); return True / return False, and the
\* handler's answer
DeleteRemove(t) ==
    LET me == thr[t]
        held == {k \in 1..Len(notes) : notes[k].id = me.note}
        ret == IF me.note = 0 THEN RetBool(FALSE)
               ELSE IF held = {} THEN RetRaised(ValueError)
               ELSE RetBool(TRUE)
    IN
    /\ me.pc = "found"
    /\ IF ret = RetBool(TRUE)
       THEN /\ notes' = ListRemove(notes, notes[CHOOSE k \in held : TRUE])
            /\ written' = [written EXCEPT ![me.note] = NoWrite]
            /\ calls' = calls - 1
       ELSE UNCHANGED <<notes, written, calls>>
    /\ last' = Call("delete", me.id, ret)
    /\ resp' = Try("delete", ret)
    /\ thr' = [thr EXCEPT ![t] =
                 [me EXCEPT !.pc = "done", !.ret = ret, !.status = resp'.status]]
    /\ UNCHANGED <<clock, nextId, kept, dep>>

\* the notes are created outside the threads, the clock standing still
ConcScope ==
    /\ nextId' <= MaxTextIds + 1
    /\ clock' = clock
    /\ Direct

NextConc ==
    \/ \E d \in PlainBodies : Create(d) /\ ConcScope
    \/ \E t \in Threads, id \in TextIds : DeleteFind(t, id)
    \/ \E t \in Threads : DeleteRemove(t)

SpecConc == Init /\ [][NextConc]_vars

(* update on several threads *)

\* A thread in update can be overtaken after its get_by_id, between the setattr
\* of one field and the next, and between reading the clock and storing it in
\* updated_at.  The notes are not deleted here, so that the Note object a thread
\* found stays in the list.

\* update_data.items(): the fields the body carries, in the order of the model
UpdateItems(d) ==
    (IF "title" \in model_dump_exclude_unset(d) THEN <<"title">> ELSE <<>>)
        \o (IF "content" \in model_dump_exclude_unset(d) THEN <<"content">> ELSE <<>>)

\* update_note calls storage.update: note = self.get_by_id(note_id) and
\* update_data = note_data.model_dump(exclude_unset=True)
UpdateFind(t, id, d) ==
    /\ thr[t].pc = "idle"
    /\ NoteUpdateValid(d)
    /\ thr' = [thr EXCEPT ![t] =
                 [Idle EXCEPT !.pc = "update", !.id = id,
                              !.note = IF get_by_id(notes, id) = 0 THEN 0 ELSE id,
                              !.data = d, !.todo = UpdateItems(d)]]
    /\ UNCHANGED <<notes, clock, nextId, last, written, kept, resp, calls, dep>>

\* if not note: return None, answered 404
UpdateAbsent(t) ==
    /\ thr[t].pc = "update"
    /\ thr[t].note = 0
    /\ last' = Call("update", thr[t].id, RetNone)
    /\ resp' = Try("update", RetNone)
    /\ thr' = [thr EXCEPT ![t] =
                 [@ EXCEPT !.pc = "done", !.ret = RetNone, !.status = resp'.status]]
    /\ UNCHANGED <<notes, clock, nextId, written, kept, calls, dep>>

\* setattr(note, field, value) for the next field of update_data
UpdateSet(t) ==
    LET me == thr[t]
        i == get_by_id(notes, me.note)
        field == Head(me.todo)
        note == [notes[i] EXCEPT ![field] = me.data[field]]
    IN
    /\ me.pc = "update"
    /\ me.note # 0
    /\ me.todo # <<>>
    /\ notes' = [notes EXCEPT ![i] = note]
    /\ kept' = Aliased(kept, note)
    /\ thr' = [thr EXCEPT ![t] = [me EXCEPT !.todo = Tail(me.todo)]]
    /\ UNCHANGED <<clock, nextId, last, written, resp, calls, dep>>

\* datetime.now(UTC) is evaluated
UpdateNow(t) ==
    /\ thr[t].pc = "update"
    /\ thr[t].note # 0
    /\ thr[t].todo = <<>>
    /\ \E now \in clock..MaxClock :
         /\ clock' = now
         /\ thr' = [thr EXCEPT ![t] = [@ EXCEPT !.pc = "stamp", !.now = now]]
    /\ UNCHANGED <<notes, nextId, last, written, kept, resp, calls, dep>>

\* note.updated_at = <the value read>; return note, answered 200
UpdateStamp(t) ==
    LET me == thr[t]
        i == get_by_id(notes, me.note)
        note == [notes[i] EXCEPT !.updated_at = me.now]
    IN
    /\ me.pc = "stamp"
    /\ notes' = [notes EXCEPT ![i] = note]
    /\ kept' = Aliased(kept, note)
    /\ last' = Call("update", me.id, RetNote(note))
    /\ written' = [written EXCEPT ![me.id] = WriteOf(@, me.data)]
    /\ resp' = Try("update", RetNote(note))
    /\ thr' = [thr EXCEPT ![t] =
                 [me EXCEPT !.pc = "done", !.ret = RetNote(note), !.status = resp'.status]]
    /\ UNCHANGED <<clock, nextId, calls, dep>>

\* two full bodies with nothing in common
ConcBodies ==
    {[title |-> Str(<<"b">>), content |-> Str(<<"d">>)],
     [title |-> Str(<<"z">>), content |-> Str(<<"e">>)]}

NextConcUpdate ==
    \/ \E d \in PlainBodies : Create(d) /\ ConcScope
    \/ \E t \in Threads, id \in TextIds, d \in ConcBodies : UpdateFind(t, id, d)
    \/ \E t \in Threads : UpdateAbsent(t)
    \/ \E t \in Threads : UpdateSet(t)
    \/ \E t \in Threads : UpdateNow(t)
    \/ \E t \in Threads : UpdateStamp(t)

SpecConcUpdate == Init /\ [][NextConcUpdate]_vars

----------------------------------------------------------------------------
(* dependencies.py *)

\* what is left of the model's state by the functions of dependencies.py
DepOnly == UNCHANGED <<notes, clock, last, written, kept, resp, thr, calls>>

\* _storage_instance = NoteStorage(): a new instance, with _notes = []
Made(k) ==
    [dep EXCEPT !.instance = k, !.made = k, !.stores[k] = <<>>]

\* get_storage without the test for None: every call makes an instance
get_storage_always_new(c) ==
    /\ dep.made < MaxInstances
    /\ dep' = [Made(dep.made + 1) EXCEPT !.got[c] = dep.made + 1]
    /\ UNCHANGED nextId
    /\ DepOnly

\* get_storage, called by c with no other call running
get_storage(c) ==
    /\ IF dep.instance = 0
       THEN /\ dep.made < MaxInstances
            /\ dep' = [Made(dep.made + 1) EXCEPT !.got[c] = dep.made + 1]
       ELSE dep' = [dep EXCEPT !.got[c] = dep.instance]
    /\ UNCHANGED nextId
    /\ DepOnly

\* reset_storage
reset_storage ==
    /\ dep' = [dep EXCEPT !.instance = 0]
    /\ UNCHANGED nextId
    /\ DepOnly

\* storage.create(note) on the instance c got from get_storage
CreateVia(c, d) ==
    /\ dep.got[c] # 0
    /\ NoteCreateValid(d)
    /\ nextId <= MaxTextIds
    /\ dep' = [dep EXCEPT !.stores[dep.got[c]] = Append(@, Note(d, nextId, clock, clock))]
    /\ nextId' = nextId + 1
    /\ DepOnly

NextDep ==
    \/ \E c \in Callers : get_storage(c)
    \/ reset_storage
    \/ \E c \in Callers, d \in PlainBodies : CreateVia(c, d)

SpecDep == Init /\ [][NextDep]_vars

\* get_storage on several threads, as the dependency of concurrent requests,
\* with no reset_storage: the test, the assignment and the return are steps

\* if _storage_instance is None:
GetStorageTest(c) ==
    /\ dep.pc[c] = "out"
    /\ dep' = [dep EXCEPT !.pc[c] = IF dep.instance = 0 THEN "make" ELSE "return"]
    /\ UNCHANGED nextId
    /\ DepOnly

\* _storage_instance = NoteStorage()
GetStorageMake(c) ==
    /\ dep.pc[c] = "make"
    /\ dep.made < MaxInstances
    /\ dep' = [Made(dep.made + 1) EXCEPT !.pc[c] = "return"]
    /\ UNCHANGED nextId
    /\ DepOnly

\* return _storage_instance
GetStorageReturn(c) ==
    /\ dep.pc[c] = "return"
    /\ dep' = [dep EXCEPT !.got[c] = dep.instance, !.pc[c] = "out"]
    /\ UNCHANGED nextId
    /\ DepOnly

NextDepConc ==
    \/ \E c \in Callers : GetStorageTest(c)
    \/ \E c \in Callers : GetStorageMake(c)
    \/ \E c \in Callers : GetStorageReturn(c)
    \/ \E c \in Callers, d \in PlainBodies : CreateVia(c, d)

SpecDepConc == Init /\ [][NextDepConc]_vars

----------------------------------------------------------------------------
(* Properties *)

Stored(id) == \E i \in 1..Len(notes) : notes[i].id = id
Returned == last.ret.note
Listed == last.ret.notes

NonEmptyText(v) == v.kind = "str" /\ Len(v.chars) >= 1

\* C1 (as claimed): every stored note has a title that is non-empty text of at
\* most 200 characters and a content that is non-empty text, after any calls
\* whose bodies NoteCreate / NoteUpdate accepted.
C1_StoredFieldsNonEmpty ==
    \A i \in 1..Len(notes) :
        /\ NonEmptyText(notes[i].title)
        /\ Len(notes[i].title.chars) <= 200
        /\ NonEmptyText(notes[i].content)

\* C2: a successful update sets exactly the fields its body carries to the
\* given values and leaves the other field of that note at its previous value.
C2_UpdateMerges ==
    [][\A id \in TextIds, d \in Bodies :
         (/\ last'.op = "update" /\ last'.id = id
          /\ NoteUpdateValid(d) /\ Stored(id)
          /\ Update(id, d)) =>
            \E i \in 1..Len(notes) :
                /\ notes[i].id = id
                /\ Len(notes') = Len(notes)
                /\ notes'[i].title =
                       IF d.title.kind = "unset" THEN notes[i].title ELSE d.title
                /\ notes'[i].content =
                       IF d.content.kind = "unset" THEN notes[i].content ELSE d.content
                /\ last'.ret.kind = "note"
                /\ last'.ret.note = notes'[i]]_vars

\* C2 witness: an update carrying only a title has left a stored note with the
\* new title beside the content "d" it was created with.
C2_Witness ==
    /\ last.op = "update"
    /\ last.ret.kind = "note"
    /\ Returned.title = Str(Repeat("t", MaxTitleLen))
    /\ Returned.content = Str(<<"d">>)
    /\ written[last.id].title = Returned.title
    /\ Len(notes) = 2

\* the live notes were created at strictly increasing clock values
DistinctCreation ==
    \A i, j \in 1..Len(notes) : i # j => notes[i].created_at # notes[j].created_at

ReverseCreationOrder(r) ==
    \A i, j \in 1..Len(r) : i < j => r[i].id > r[j].id

\* C3 (as claimed): whatever the clock read at the creates, equal values
\* included, get_all returns the notes in strictly reverse creation order.
C3_ReverseOrderAnyTicks ==
    last.op = "get_all" => ReverseCreationOrder(Listed)

\* C3 (amended): when the notes were created at strictly increasing clock
\* values, get_all returns them in strictly reverse creation order.
C3_ReverseOrderDistinctTicks ==
    (last.op = "get_all" /\ DistinctCreation) => ReverseCreationOrder(Listed)

\* C3 witness: get_all has returned three notes created at three different
\* clock values.
C3_Witness ==
    /\ last.op = "get_all"
    /\ Len(Listed) = 3
    /\ DistinctCreation

Count(s, x) == Cardinality({i \in 1..Len(s) : s[i] = x})
Position(id) == CHOOSE i \in 1..Len(notes) : notes[i].id = id

\* C4: get_all returns a list, on the empty store the empty one, holding
\* exactly the stored notes, by created_at descending, and notes of equal
\* created_at in their insertion order.
C4_GetAllSorted ==
    last.op = "get_all" =>
        /\ last.ret.kind = "list"
        /\ Len(Listed) = Len(notes)
        /\ \A k \in 1..Len(notes) : Count(Listed, notes[k]) = Count(notes, notes[k])
        /\ \A i, j \in 1..Len(Listed) :
              i < j =>
                /\ Listed[i].created_at >= Listed[j].created_at
                /\ Listed[i].created_at = Listed[j].created_at =>
                      Position(Listed[i].id) < Position(Listed[j].id)

\* C4 witness: get_all has returned three notes of which two share a
\* created_at and the third is newer.
C4_Witness ==
    /\ last.op = "get_all"
    /\ Len(Listed) = 3
    /\ Listed[1].created_at > Listed[2].created_at
    /\ Listed[2].created_at = Listed[3].created_at

\* C5 (as claimed): the note create returns has created_at = updated_at, and a
\* stored note keeps that equality over every step that is no successful
\* update of it.
C5_CreatedEqualsUpdated ==
    [][/\ \A d \in PlainBodies :
            (Create(d) /\ NoteCreateValid(d)) =>
                /\ last'.ret.kind = "note"
                /\ last'.ret.note.created_at = last'.ret.note.updated_at
       /\ \A i \in 1..Len(notes), j \in 1..Len(notes') :
            (/\ notes[i].id = notes'[j].id
             /\ notes[i].created_at = notes[i].updated_at
             /\ ~(last'.op = "update" /\ last'.id = notes[i].id
                    /\ last'.ret.kind = "note")) =>
                notes'[j].created_at = notes'[j].updated_at]_vars

\* C6: while an id is live (created, neither deleted nor cleared since),
\* get_by_id of it returns a note with that id and with the title and the
\* content last written for it by create or update.
C6_RoundTrip ==
    \A id \in TextIds :
        (last.op = "get_by_id" /\ last.id = id /\ written[id].kind = "written") =>
            /\ last.ret.kind = "note"
            /\ Returned.id = id
            /\ Returned.title = written[id].title
            /\ Returned.content = written[id].content

\* C6 witness: get_by_id has returned the second of two live notes, whose
\* title and content both differ from the first note's.
C6_Witness ==
    /\ last.op = "get_by_id"
    /\ last.id = 2
    /\ last.ret.kind = "note"
    /\ Len(notes) = 2
    /\ written[1].kind = "written"
    /\ written[2].title # written[1].title
    /\ written[2].content # written[1].content

\* C7: for an id that is no stored note's id, get_by_id returns None, update
\* returns None and delete returns False, and the call leaves the list as it
\* was.
C7_NotFoundIsAValue ==
    [][\A id \in Ids :
         ~Stored(id) =>
            /\ GetById(id) => (last'.ret = RetNone /\ notes' = notes)
            /\ \A d \in PlainBodies :
                 (Update(id, d) /\ NoteUpdateValid(d)) =>
                    (last'.ret = RetNone /\ notes' = notes)
            /\ Delete(id) => (last'.ret = RetBool(FALSE) /\ notes' = notes)]_vars

\* C7 witness: an update of an id that is not stored has returned None while
\* two other notes are stored.
C7_Witness ==
    /\ last.op = "update"
    /\ last.ret = RetNone
    /\ ~Stored(last.id)
    /\ Len(notes) = 2

\* C8: delete of a stored id returns True and leaves the previous list less
\* exactly the note of that id, so that get_by_id of it finds nothing; a
\* delete of the same id that follows it returns False.
C8_DeleteRemovesOne ==
    [][\A id \in Ids :
         /\ (Delete(id) /\ Stored(id)) =>
                /\ last'.ret = RetBool(TRUE)
                /\ Len(notes') = Len(notes) - 1
                /\ \E k \in 1..Len(notes) :
                      /\ notes[k].id = id
                      /\ notes' = SubSeq(notes, 1, k - 1) \o SubSeq(notes, k + 1, Len(notes))
                /\ get_by_id(notes', id) = 0
         /\ (/\ last.op = "delete" /\ last.id = id /\ last.ret = RetBool(TRUE)
             /\ Delete(id)) =>
                last'.ret = RetBool(FALSE)]_vars

\* C8 witness: of three created notes the middle one has been deleted.
C8_Witness ==
    /\ last.op = "delete"
    /\ last.id = 2
    /\ last.ret = RetBool(TRUE)
    /\ Len(notes) = 2
    /\ notes[1].id = 1
    /\ notes[2].id = 3

\* C9: a successful update changes neither the note's id nor its created_at
\* and does not lower its updated_at; over every step a note that stays
\* stored keeps its created_at and does not lower its updated_at.
C9_UpdateKeepsIdentity ==
    [][/\ \A id \in Ids, d \in PlainBodies :
            (Update(id, d) /\ NoteUpdateValid(d) /\ Stored(id)) =>
                \E i \in 1..Len(notes) :
                    /\ notes[i].id = id
                    /\ last'.ret.kind = "note"
                    /\ last'.ret.note = notes'[i]
                    /\ notes'[i].id = notes[i].id
                    /\ notes'[i].created_at = notes[i].created_at
                    /\ notes'[i].updated_at >= notes[i].updated_at
       /\ \A i \in 1..Len(notes), j \in 1..Len(notes') :
            notes[i].id = notes'[j].id =>
                /\ notes'[j].created_at = notes[i].created_at
                /\ notes'[j].updated_at >= notes[i].updated_at]_vars

\* C9 witness: an update has returned a note whose updated_at is later than
\* its created_at, with a newer note stored behind it.
C9_Witness ==
    /\ last.op = "update"
    /\ last.ret.kind = "note"
    /\ Returned.updated_at > Returned.created_at
    /\ Len(notes) = 2
    /\ Returned.id = notes[1].id
    /\ notes[2].created_at > Returned.created_at

\* C10: created_at <= updated_at holds of every stored note.
C10_CreatedBeforeUpdated ==
    \A i \in 1..Len(notes) : notes[i].created_at <= notes[i].updated_at

\* C10 witness: three notes are stored, one of them updated at the last clock
\* value after a creation at the first.
C10_Witness ==
    /\ Len(notes) = 3
    /\ last.op = "update"
    /\ \E i \in 1..3 : notes[i].created_at = 0 /\ notes[i].updated_at = MaxClock

\* C11: no two stored notes have the same id.
C11_IdsUnique ==
    \A i, j \in 1..Len(notes) : i # j => notes[i].id # notes[j].id

\* C11 witness: a note has been created into a store that holds an older note
\* and has lost another one.
C11_Witness ==
    /\ last.op = "create"
    /\ last.ret.kind = "note"
    /\ nextId = 4
    /\ Len(notes) = 2

\* a step in which the store was called
StoreCalled == last' # last

\* C12 (as claimed): no later call of the store changes a list get_all
\* returned: not its length, members or order, nor a field of a note in it.
C12_SnapshotUnchanged ==
    [][(kept.kind = "list" /\ StoreCalled) => kept' = kept]_vars

\* C13 (as claimed): no later call of the store changes a note that create,
\* get_by_id or update returned, and a caller changing that note changes
\* nothing the store holds.
C13_ReturnedAreCopies ==
    [][/\ (kept.kind = "note" /\ StoreCalled) => kept' = kept
       /\ (\E v \in CallerTitles : CallerSetsTitle(v)) => notes' = notes]_vars

\* C14 (as claimed): when two threads have each completed a delete of the same
\* id, which was stored when the first of them looked for it, one of the calls
\* returned True and the other False, neither raised, and the answers are one
\* 204 and one 404.
C14_ConcurrentDeletes ==
    (/\ thr[1].pc = "done" /\ thr[2].pc = "done"
     /\ thr[1].id = thr[2].id
     /\ (thr[1].note # 0 \/ thr[2].note # 0)) =>
        /\ {thr[1].ret, thr[2].ret} = {RetBool(TRUE), RetBool(FALSE)}
        /\ {thr[1].status, thr[2].status} = {204, 404}

EmptyBody == [title |-> UNSET, content |-> UNSET]

\* C15: every successful update, whatever its body, returns the note with
\* updated_at set to the clock value read in that update; with an empty body
\* the note's id, title, content and created_at stay as they were.
C15_UpdateAlwaysStamps ==
    [][\A id \in Ids, d \in PlainBodies :
         (/\ last'.op = "update" /\ last'.id = id
          /\ NoteUpdateValid(d) /\ Stored(id)
          /\ Update(id, d)) =>
            \E i \in 1..Len(notes) :
                /\ notes[i].id = id
                /\ last'.ret = RetNote(notes'[i])
                /\ clock' >= clock
                /\ notes'[i].updated_at = clock'
                /\ d = EmptyBody =>
                      /\ notes'[i].id = notes[i].id
                      /\ notes'[i].title = notes[i].title
                      /\ notes'[i].content = notes[i].content
                      /\ notes'[i].created_at = notes[i].created_at]_vars

\* C15 witness: an update has returned the only stored note, created at the
\* first clock value, stamped with the last one.
C15_Witness ==
    /\ last.op = "update"
    /\ last.ret.kind = "note"
    /\ Len(notes) = 1
    /\ Returned.created_at = 0
    /\ Returned.updated_at = MaxClock
    /\ clock = MaxClock

\* C16: clear leaves the list empty whatever it held: get_all then returns
\* the empty list and get_by_id finds none of the ids stored before.
C16_ClearEmpties ==
    [][(last'.op = "clear" /\ Clear) =>
            /\ notes' = <<>>
            /\ get_all(notes') = <<>>
            /\ \A id \in Ids : Stored(id) => get_by_id(notes', id) = 0]_vars

\* C16 witness: clear has emptied a store into which three notes had been
\* created.
C16_Witness ==
    /\ last.op = "clear"
    /\ nextId = 4
    /\ notes = <<>>

StoredAfter(id) == \E i \in 1..Len(notes') : notes'[i].id = id
Gone(id) == id < nextId /\ ~Stored(id)
ContentOnly(d) == d.title = UNSET /\ NonEmptyText(d.content)
NotFoundAnswer == resp'.status = 404 /\ resp'.detail = "Note not found" /\ notes' = notes

\* C17: one note through the routes.  POST /notes with a valid body answers 201
\* with a note of a fresh id that is stored; GET /notes/{id} of a stored id
\* answers 200 with the stored note; PUT /notes/{id} with only content answers
\* 200 with the title unchanged and the content replaced; DELETE /notes/{id} of
\* a stored id answers 204 and the id is stored no more; every GET, PUT and
\* DELETE on an id that was handed out and deleted answers 404 "Note not found".
C17_CrudFlow ==
    [][/\ \A d \in HttpBodies :
            (/\ last'.op = "create" /\ NoteCreateValid(d)
             /\ create_note(d, NoFault)) =>
                /\ resp'.status = 201
                /\ resp'.body.kind = "note"
                /\ resp'.body.note.id >= nextId
                /\ ~Stored(resp'.body.note.id)
                /\ StoredAfter(resp'.body.note.id)
                /\ resp'.body.note.title = d.title
                /\ resp'.body.note.content = d.content
       /\ \A id \in HttpIds :
            (/\ last'.op = "get_by_id" /\ last'.id = id /\ Stored(id)
             /\ get_note(id, NoFault)) =>
                /\ resp'.status = 200
                /\ \E i \in 1..Len(notes) :
                     notes[i].id = id /\ resp'.body = RetNote(notes[i])
                /\ notes' = notes
       /\ \A id \in HttpIds, d \in HttpBodies :
            (/\ last'.op = "update" /\ last'.id = id /\ Stored(id)
             /\ ContentOnly(d)
             /\ update_note(id, d, NoFault)) =>
                /\ resp'.status = 200
                /\ resp'.body.kind = "note"
                /\ resp'.body.note.id = id
                /\ resp'.body.note.content = d.content
                /\ \E i \in 1..Len(notes) :
                     notes[i].id = id /\ resp'.body.note.title = notes[i].title
       /\ \A id \in HttpIds :
            (/\ last'.op = "delete" /\ last'.id = id /\ Stored(id)
             /\ delete_note(id, NoFault)) =>
                /\ resp'.status = 204
                /\ ~StoredAfter(id)
       /\ \A id \in HttpIds :
            (/\ last'.id = id /\ Gone(id)
             /\ \/ get_note(id, NoFault)
                \/ delete_note(id, NoFault)
                \/ \E d \in HttpBodies : NoteUpdateValid(d) /\ update_note(id, d, NoFault)) =>
                NotFoundAnswer]_vars

\* a GET of the first note answers 404 after it was created and deleted
C17_Witness ==
    /\ resp.status = 404
    /\ last = Call("get_by_id", 1, RetNone)
    /\ nextId = 2
    /\ notes = <<>>

\* the classes of responses
ResponseClass(status) ==
    CASE status \in {200, 201, 204} -> "success"
      [] status = 404 -> "not found"
      [] status = 422 -> "rejected"
      [] status = 500 -> "failure"
      [] OTHER -> "other"

\* the status a route answers when its store call returned a value
SuccessStatus(op) ==
    CASE op = "create" -> 201
      [] op = "delete" -> 204
      [] OTHER -> 200

C19_RaisedIs500 ==
    (last.ret.kind = "raised" /\ resp.status # 422) =>
        /\ resp.status = 500
        /\ resp.detail = FailDetail(last.op)
        /\ resp.detail # last.ret.exc.detail

\* a POST body that NoteCreate must reject, a PUT body that NoteUpdate must
\* reject
Missing(v) == v.kind # "str"
Empty(v) == v.kind = "str" /\ Len(v.chars) = 0
TooLong(v) == v.kind = "str" /\ Len(v.chars) > 200
InvalidPost(d) ==
    \/ Missing(d.title) \/ Empty(d.title) \/ TooLong(d.title)
    \/ Missing(d.content) \/ Empty(d.content)
InvalidPut(d) == Empty(d.title) \/ TooLong(d.title) \/ Empty(d.content)
InvalidPosts == {d \in HttpBodies : InvalidPost(d)}
InvalidPuts == {d \in HttpBodies : InvalidPut(d)}
StoreUntouched == UNCHANGED <<notes, clock, nextId, last, written, kept>>

\* C20: a POST whose title or content is missing or empty or whose title is
\* longer than 200 characters, and a PUT with an empty provided field or a title
\* longer than 200 characters, is answered 422 and no store operation is
\* invoked: the collection and the record of the last store call are unchanged,
\* for a PUT whether or not the id is stored.
C20_InvalidNeverReachesStore ==
    [][/\ \A d \in InvalidPosts, f \in Faults :
            create_note(d, f) => (resp'.status = 422 /\ StoreUntouched)
       /\ \A id \in HttpIds, d \in InvalidPuts, f \in Faults :
            update_note(id, d, f) => (resp'.status = 422 /\ StoreUntouched)]_vars

\* a 422 answered after an update of a stored note, the note being stored
C20_Witness ==
    /\ resp.status = 422
    /\ last.op = "update"
    /\ last.ret.kind = "note"
    /\ Len(notes) = 1

\* C26: a create that stores a note leaves the notes stored before as they
\* were, in their places, and adds exactly one note after them; an update that
\* finds its note leaves the length of the list, the id at every place and
\* every field of every other note as they were.
C26_WritesFrame ==
    [][/\ \A d \in PlainBodies :
            (/\ last'.op = "create" /\ last'.ret.kind = "note"
             /\ Create(d)) =>
                /\ Len(notes') = Len(notes) + 1
                /\ \A i \in 1..Len(notes) : notes'[i] = notes[i]
                /\ notes'[Len(notes')] = last'.ret.note
       /\ \A id \in Ids, d \in PlainBodies :
            (/\ last'.op = "update" /\ last'.id = id /\ last'.ret.kind = "note"
             /\ Update(id, d)) =>
                /\ Len(notes') = Len(notes)
                /\ \A i \in 1..Len(notes) :
                     /\ notes'[i].id = notes[i].id
                     /\ notes[i].id # id => notes'[i] = notes[i]]_vars

\* an update has changed the second of three stored notes
C26_Witness ==
    /\ last.op = "update"
    /\ last.id = 2
    /\ last.ret.kind = "note"
    /\ Len(notes) = 3
    /\ notes[2].updated_at > notes[2].created_at

\* the reads of the store
ReadStep == GetAll \/ \E id \in Ids : GetById(id)

\* C27: get_all and get_by_id leave the stored list as it was, in membership,
\* order and every field, and the clock and the ids too; what a read returned
\* is what the same read returns on the state it left, so that a second read
\* with no write in between returns an equal result.
C27_ReadsArePure ==
    [][(last'.op \in {"get_all", "get_by_id"} /\ ReadStep) =>
            /\ notes' = notes
            /\ UNCHANGED <<clock, nextId>>
            /\ last'.op = "get_all" => last'.ret = RetList(get_all(notes'))
            /\ last'.op = "get_by_id" =>
                  last'.ret = (IF get_by_id(notes', last'.id) = 0 THEN RetNone
                               ELSE RetNote(notes'[get_by_id(notes', last'.id)]))]_vars

\* get_all has returned two notes in another order than the stored one
C27_Witness ==
    /\ last.op = "get_all"
    /\ Len(notes) = 2
    /\ last.ret.notes # notes
    /\ notes[1].id = 1

\* a well-formed id that is not stored
Unknown(id) == ~Stored(id)

\* C21: a GET, PUT or DELETE whose path id is no UUID's text is answered 422,
\* whatever the body and whatever the store would do, and no store operation
\* is invoked; the same request with a well-formed id that is not stored (and
\* a valid body) is answered 404, not 422, after the store returned absent.
C21_MalformedIdIs422 ==
    [][/\ \A tok \in MalformedTexts, f \in Faults :
            (\/ get_note_path(tok, f)
             \/ delete_note_path(tok, f)
             \/ \E d \in HttpBodies : update_note_path(tok, d, f)) =>
                (resp'.status = 422 /\ StoreUntouched)
       /\ \A id \in HttpIds :
            (/\ last'.id = id /\ Unknown(id)
             /\ \/ get_note_path(UUIDText(id), NoFault)
                \/ delete_note_path(UUIDText(id), NoFault)
                \/ \E d \in HttpBodies :
                     NoteUpdateValid(d) /\ update_note_path(UUIDText(id), d, NoFault)) =>
                (/\ resp'.status = 404 /\ resp'.status # 422
                 /\ last'.ret \in {RetNone, RetBool(FALSE)})]_vars

\* a malformed id was answered 422 after a store call, a note being stored
C21_Witness ==
    /\ resp.status = 422
    /\ resp.detail = "path"
    /\ last.op = "delete"
    /\ Len(notes) = 1

\* C22 (as claimed): GET /notes/{id} answers 404 when the id is unknown and
\* when it is malformed.
C22_MalformedIsNotFound ==
    [][/\ \A tok \in MalformedTexts :
            get_note_path(tok, NoFault) => resp'.status = 404
       /\ \A id \in HttpIds :
            (Unknown(id) /\ last'.id = id /\ get_note_path(UUIDText(id), NoFault)) =>
                resp'.status = 404]_vars

\* C22 (amended): GET /notes/{id} answers 404 "Note not found" when the id is
\* well-formed and unknown, and 422 when the id is malformed.
C22_UnknownIs404MalformedIs422 ==
    [][/\ \A tok \in MalformedTexts :
            get_note_path(tok, NoFault) =>
                (resp'.status = 422 /\ resp'.detail # "Note not found")
       /\ \A id \in HttpIds :
            (Unknown(id) /\ last'.id = id /\ get_note_path(UUIDText(id), NoFault)) =>
                (resp'.status = 404 /\ resp'.detail = "Note not found")]_vars

\* a GET of an unknown id was answered 404 while another note is stored
C22_Witness ==
    /\ resp.status = 404
    /\ last = Call("get_by_id", 2, RetNone)
    /\ Len(notes) = 1

\* the note with an id, and what two updates leave when the one of thread k
\* runs last: its title, its content, and the later of the two clock values
NoteOf(id) == notes[get_by_id(notes, id)]
Later(a, b) == IF a >= b THEN a ELSE b
SerialResult(k) ==
    [title |-> thr[k].data.title,
     content |-> thr[k].data.content,
     updated_at |-> Later(thr[1].now, thr[2].now)]

\* C25 (as claimed): when two threads have each completed an update, with a
\* full body, of the same stored note, the note's title, content and updated_at
\* are those that the two updates leave in one of the two serial orders: title
\* and content of the same update, and the later of the two clock values read.
C25_UpdatesSerialisable ==
    (/\ thr[1].pc = "done" /\ thr[2].pc = "done"
     /\ thr[1].id = thr[2].id
     /\ thr[1].note # 0 /\ thr[2].note # 0
     /\ thr[1].data \in ConcBodies /\ thr[2].data \in ConcBodies) =>
        \E k \in Threads :
            LET n == NoteOf(thr[1].id) IN
            /\ n.title = SerialResult(k).title
            /\ n.content = SerialResult(k).content
            /\ n.updated_at = SerialResult(k).updated_at

\* the calls that must not change the number of stored notes
KeepsCount(c) ==
    \/ c.op \in {"update", "get_by_id", "get_all"}
    \/ c.op = "delete" /\ c.ret = RetBool(FALSE)

\* C28: after every call the number of stored notes, and the length of what
\* get_all returns, is the number of create calls minus the number of delete
\* calls that returned True, counted (one up for such a create, one down for
\* such a delete) since the last clear or else since construction; update,
\* get_by_id, get_all and a delete that returns False leave the number as it
\* was.
C28_CountOfNotes ==
    [][/\ Len(notes') = calls'
       /\ Len(get_all(notes')) = calls'
       /\ KeepsCount(last') => Len(notes') = Len(notes)]_vars

\* one note is left of three created, after a delete that returned True
C28_Witness ==
    /\ Len(notes) = 1
    /\ calls = 1
    /\ nextId = 4
    /\ last = Call("delete", 3, RetBool(TRUE))

\* the instances handed out so far
Handed == {dep.got[c] : c \in Callers} \ {0}

\* C23: with no other call running, a get_storage that finds an instance
\* returns that instance and makes none, so that the calls between two resets
\* all return the same one; reset_storage leaves no instance; a get_storage
\* that finds none (the first one, or the first after a reset_storage) returns
\* an instance made in that call, which no caller was handed before and whose
\* notes are empty, the notes of the earlier instances staying where they were.
C23_SingletonWithReset ==
    [][/\ \A c \in Callers :
            (dep.instance # 0 /\ get_storage(c)) =>
                /\ dep'.got[c] = dep.instance
                /\ dep'.instance = dep.instance
                /\ dep'.made = dep.made
                /\ dep'.stores = dep.stores
       /\ reset_storage => dep'.instance = 0 /\ dep'.stores = dep.stores
       /\ \A c \in Callers :
            (dep.instance = 0 /\ get_storage(c)) =>
                /\ dep'.got[c] # 0
                /\ dep'.got[c] \notin Handed
                /\ dep'.instance = dep'.got[c]
                /\ dep'.stores[dep'.got[c]] = <<>>
                /\ \A k \in Handed : dep'.stores[k] = dep.stores[k]]_vars

\* after a reset a caller holds the second instance, which is empty, while the
\* other caller holds the first one, with the note created in it
C23_Witness ==
    /\ dep.made = 2
    /\ dep.instance = 2
    /\ dep.got[1] = 2
    /\ dep.got[2] = 1
    /\ Len(dep.stores[1]) = 1
    /\ dep.stores[2] = <<>>

\* C24 (as claimed): when get_storage runs on several threads with no instance
\* at the start and no reset_storage, all callers are returned the same
\* instance, and so see the same notes.
C24_LazyInitRaceFree ==
    \A c1, c2 \in Callers :
        (dep.got[c1] # 0 /\ dep.got[c2] # 0) =>
            /\ dep.got[c1] = dep.got[c2]
            /\ dep.stores[dep.got[c1]] = dep.stores[dep.got[c2]]

====
